---- MODULE Spec2Model ----
(***************************************************************************)
(* Model of the camera-feed query system: the feed catalog held by         *)
(* DataLoader (src/data_loader.py), the MCPTools operations over it        *)
(* (src/mcp_tools.py) and the three-node query graph of QueryAgent         *)
(* (src/query_agent.py).                                                   *)
(*                                                                         *)
(* Python values are tagged records, so that None, strings, integers and   *)
(* booleans can be told apart and compared.  A Python string is a sequence *)
(* of one-character strings, so that str.upper, str.lower and the `in`     *)
(* substring test are computed character by character.                     *)
(***************************************************************************)
EXTENDS Integers, Sequences, FiniteSets, TLC

\* ------------------------------------------------------------------------
\* Bounds of the model
\* ------------------------------------------------------------------------
\* Largest number of rows of Table_feeds_v2.csv that is explored.
MaxFeeds == 2

\* ------------------------------------------------------------------------
\* Python values
\* ------------------------------------------------------------------------
None == [tag |-> "None"]
PyStr(s) == [tag |-> "str", v |-> s]
PyInt(n) == [tag |-> "int", v |-> n]
PyBool(b) == [tag |-> "bool", v |-> b]

\* Python truth value of an object, as used by `if x:`.
Truthy(x) ==
  CASE x.tag = "None" -> FALSE
    [] x.tag = "str" -> x.v # <<>>
    [] x.tag = "int" -> x.v # 0
    [] x.tag = "bool" -> x.v

\* dict.get(key, default)
dict_get(d, key, default) == IF key \in DOMAIN d THEN d[key] ELSE default

EmptyDict == [k \in {} |-> None]

\* ------------------------------------------------------------------------
\* Strings
\* ------------------------------------------------------------------------
UpperLetters ==
  <<"A","B","C","D","E","F","G","H","I","J","K","L","M",
    "N","O","P","Q","R","S","T","U","V","W","X","Y","Z">>
LowerLetters ==
  <<"a","b","c","d","e","f","g","h","i","j","k","l","m",
    "n","o","p","q","r","s","t","u","v","w","x","y","z">>

upper_char(c) ==
  IF \E i \in 1..26 : LowerLetters[i] = c
    THEN UpperLetters[CHOOSE i \in 1..26 : LowerLetters[i] = c]
    ELSE c
lower_char(c) ==
  IF \E i \in 1..26 : UpperLetters[i] = c
    THEN LowerLetters[CHOOSE i \in 1..26 : UpperLetters[i] = c]
    ELSE c

\* str.upper() and str.lower()
upper(s) == [i \in 1..Len(s) |-> upper_char(s[i])]
lower(s) == [i \in 1..Len(s) |-> lower_char(s[i])]

\* sub in s
str_in(sub, s) ==
  \E i \in 0..(Len(s) - Len(sub)) : SubSeq(s, i + 1, i + Len(sub)) = sub

\* String literals of the program and of the explored inputs.
s_PAC == <<"P","A","C">>
s_EUR == <<"E","U","R">>
s_pac == <<"p","a","c">>
s_Eur == <<"E","u","r">>
s_XX == <<"X","X">>
s_H264 == <<"H","2","6","4">>
s_H265 == <<"H","2","6","5">>
s_h265 == <<"h","2","6","5">>
s_AV1 == <<"A","V","1">>
s_VP9 == <<"V","P","9">>
s_MPEG2 == <<"M","P","E","G","2">>
s_high == <<"h","i","g","h">>
s_HIGH == <<"H","I","G","H">>
s_best == <<"b","e","s","t">>
s_Best_clarity == <<"B","e","s","t"," ","c","l","a","r","i","t","y">>
s_low == <<"l","o","w">>
s_filter == <<"f","i","l","t","e","r">>
s_search == <<"s","e","a","r","c","h">>
s_analyze == <<"a","n","a","l","y","z","e">>
s_get_info == <<"g","e","t","_","i","n","f","o">>
s_error == <<"e","r","r","o","r">>
s_Unknown_error == <<"U","n","k","n","o","w","n"," ","e","r","r","o","r">>
s_boom == <<"b","o","o","m">>
s_4k == <<"4","k">>
s_pacific == <<"p","a","c","i","f","i","c">>
s_europe == <<"e","u","r","o","p","e">>
s_eur == <<"e","u","r">>
s_quality == <<"q","u","a","l","i","t","y">>
s_CONUS == <<"C","O","N","U","S">>
s_ME == <<"M","E">>
s_AFR == <<"A","F","R">>
s_ARC == <<"A","R","C">>

\* The theater and codec codes (prompt of _parse_query, MCPTools docstrings).
KnownTheaters == {s_CONUS, s_PAC, s_EUR, s_ME, s_AFR, s_ARC}
KnownCodecs == {s_H264, s_H265, s_AV1, s_VP9, s_MPEG2}

\* ------------------------------------------------------------------------
\* The feed catalog (DataLoader.camera_feeds)
\* ------------------------------------------------------------------------
CatalogColumns ==
  <<"FEED_ID", "THEATER", "CODEC", "RES_W", "RES_H", "LAT_MS", "ENCR", "CIV_OK">>

FeedIds == <<"FD-1", "FD-2", "FD-3", "FD-4", "FD-5">>

\* Rows a catalog is built from (all columns but FEED_ID).
RowShapes ==
  { [THEATER |-> s_PAC, CODEC |-> s_H265, RES_W |-> 3840, RES_H |-> 2160,
     LAT_MS |-> 150, ENCR |-> TRUE, CIV_OK |-> TRUE],
    [THEATER |-> s_EUR, CODEC |-> s_H264, RES_W |-> 1280, RES_H |-> 720,
     LAT_MS |-> 800, ENCR |-> FALSE, CIV_OK |-> TRUE],
    [THEATER |-> s_PAC, CODEC |-> s_AV1, RES_W |-> 1920, RES_H |-> 1080,
     LAT_MS |-> 500, ENCR |-> TRUE, CIV_OK |-> FALSE],
    [THEATER |-> s_EUR, CODEC |-> s_H265, RES_W |-> 1920, RES_H |-> 720,
     LAT_MS |-> 0, ENCR |-> FALSE, CIV_OK |-> FALSE] }

Row(id, shape) ==
  [FEED_ID |-> id, THEATER |-> shape.THEATER, CODEC |-> shape.CODEC,
   RES_W |-> shape.RES_W, RES_H |-> shape.RES_H, LAT_MS |-> shape.LAT_MS,
   ENCR |-> shape.ENCR, CIV_OK |-> shape.CIV_OK]

\* The tables pd.read_csv can return: FEED_ID is unique.
Catalogs ==
  { [i \in 1..Len(f) |-> Row(FeedIds[i], f[i])] :
      f \in UNION { [1..m -> RowShapes] : m \in 0..MaxFeeds } }

\* ------------------------------------------------------------------------
\* DataLoader (src/data_loader.py): every filter is a boolean-mask selection
\* feeds[mask], which keeps the rows of feeds in their order.
\* ------------------------------------------------------------------------
\* The comparison made with the argument as given, not upper-cased.
get_feeds_by_theater_as_given(feeds, theater) ==
  SelectSeq(feeds, LAMBDA r : r.THEATER = theater)

get_feeds_by_theater(feeds, theater) ==
  SelectSeq(feeds, LAMBDA r : r.THEATER = upper(theater))

get_feeds_by_codec(feeds, codec) ==
  SelectSeq(feeds, LAMBDA r : r.CODEC = upper(codec))

get_feeds_by_resolution(feeds, min_width, min_height, max_width, max_height) ==
  LET f1 == IF Truthy(min_width)
              THEN SelectSeq(feeds, LAMBDA r : r.RES_W >= min_width.v)
              ELSE feeds
      f2 == IF Truthy(min_height)
              THEN SelectSeq(f1, LAMBDA r : r.RES_H >= min_height.v)
              ELSE f1
      f3 == IF Truthy(max_width)
              THEN SelectSeq(f2, LAMBDA r : r.RES_W <= max_width.v)
              ELSE f2
      f4 == IF Truthy(max_height)
              THEN SelectSeq(f3, LAMBDA r : r.RES_H <= max_height.v)
              ELSE f3
  IN  f4

get_feeds_by_latency(feeds, max_latency, min_latency) ==
  LET f1 == IF Truthy(max_latency)
              THEN SelectSeq(feeds, LAMBDA r : r.LAT_MS <= max_latency.v)
              ELSE feeds
      f2 == IF Truthy(min_latency)
              THEN SelectSeq(f1, LAMBDA r : r.LAT_MS >= min_latency.v)
              ELSE f1
  IN  f2

\* get_camera_feeds: load_all_data runs again only while camera_feeds is None,
\* that is while nothing has been loaded; n is the number of loads so far.
loads_after_get_camera_feeds(n) == IF n = 0 THEN n + 1 ELSE n

\* Series.astype(int) of a boolean column
astype_int(b) == IF b THEN 1 ELSE 0

ModernCodecs == {s_H265, s_AV1, s_VP9}

\* The score with the latency term taken strictly below 500.
quality_score_strict_latency(r) ==
  LET high_res == (r.RES_W >= 1920) /\ (r.RES_H >= 1080)
      modern_codec == r.CODEC \in ModernCodecs
      low_latency == r.LAT_MS < 500
  IN  (astype_int(high_res) * 3) + (astype_int(modern_codec) * 2)
        + (astype_int(low_latency) * 1)

quality_score(r) ==
  LET high_res == (r.RES_W >= 1920) /\ (r.RES_H >= 1080)
      modern_codec == r.CODEC \in ModernCodecs
      low_latency == r.LAT_MS <= 500
  IN  (astype_int(high_res) * 3) + (astype_int(modern_codec) * 2)
        + (astype_int(low_latency) * 1)

ScoredRow(r) ==
  [FEED_ID |-> r.FEED_ID, THEATER |-> r.THEATER, CODEC |-> r.CODEC,
   RES_W |-> r.RES_W, RES_H |-> r.RES_H, LAT_MS |-> r.LAT_MS,
   ENCR |-> r.ENCR, CIV_OK |-> r.CIV_OK, quality_score |-> quality_score(r)]

Permutations_of(n) == { p \in [1..n -> 1..n] : \A i, j \in 1..n : i # j => p[i] # p[j] }

\* DataFrame.sort_values('quality_score', ascending=False) with the default
\* kind='quicksort', which pandas documents as not stable: every ordering that
\* is descending in the score is a possible outcome.
sort_values_descending(rows) ==
  { [i \in 1..Len(rows) |-> rows[p[i]]] : p \in
      { q \in Permutations_of(Len(rows)) :
          \A i, j \in 1..Len(rows) :
            i < j => rows[q[i]].quality_score >= rows[q[j]].quality_score } }

\* The score column written into the loader's own frame.
catalog_after_ranking_in_place(feeds) == [i \in 1..Len(feeds) |-> ScoredRow(feeds[i])]

\* The loader's frame after get_high_quality_feeds: the score column is added
\* to feeds.copy(), not to the frame itself.
catalog_after_ranking(feeds) == feeds

\* The set of frames get_high_quality_feeds can return.
get_high_quality_feeds(feeds) ==
  sort_values_descending([i \in 1..Len(feeds) |-> ScoredRow(feeds[i])])

\* ------------------------------------------------------------------------
\* MCPTools (src/mcp_tools.py): the result dictionaries
\* ------------------------------------------------------------------------
get_all_camera_feeds(feeds) ==
  [feeds |-> feeds, total_count |-> Len(feeds), columns |-> CatalogColumns]

\* The filter answering an unknown theater code with an error entry.
filter_by_theater_rejecting(feeds, theater) ==
  LET found == get_feeds_by_theater(feeds, theater)
  IN  IF upper(theater) \in KnownTheaters
        THEN [feeds |-> found, theater |-> theater, count |-> Len(found),
              columns |-> CatalogColumns]
        ELSE [feeds |-> found, theater |-> theater, count |-> Len(found),
              columns |-> CatalogColumns, error |-> <<"Unknown theater">>]

filter_by_theater(feeds, theater) ==
  LET found == get_feeds_by_theater(feeds, theater)
  IN  [feeds |-> found, theater |-> theater, count |-> Len(found),
       columns |-> CatalogColumns]

filter_by_codec(feeds, codec) ==
  LET found == get_feeds_by_codec(feeds, codec)
  IN  [feeds |-> found, codec |-> codec, count |-> Len(found),
       columns |-> CatalogColumns]

filter_by_resolution(feeds, min_width, min_height, max_width, max_height) ==
  LET found == get_feeds_by_resolution(feeds, min_width, min_height,
                                       max_width, max_height)
  IN  [feeds |-> found,
       resolution_filter |-> [min_width |-> min_width, min_height |-> min_height,
                              max_width |-> max_width, max_height |-> max_height],
       count |-> Len(found), columns |-> CatalogColumns]

filter_by_latency(feeds, max_latency, min_latency) ==
  LET found == get_feeds_by_latency(feeds, max_latency, min_latency)
  IN  [feeds |-> found,
       latency_filter |-> [max_latency |-> max_latency, min_latency |-> min_latency],
       count |-> Len(found), columns |-> CatalogColumns]

\* MCPTools.get_high_quality_feeds, for the frame the loader returned.
high_quality_result(frame) ==
  [feeds |-> frame, count |-> Len(frame),
   quality_metrics |-> [resolution_weight |-> 3, codec_weight |-> 2,
                        latency_weight |-> 1],
   columns |-> Append(CatalogColumns, "quality_score")]

\* Series.value_counts().to_dict(): the values that occur, each with the
\* number of rows holding it.
value_counts(values) ==
  [v \in {values[n] : n \in 1..Len(values)} |->
     Cardinality({n \in 1..Len(values) : values[n] = v})]

\* list(counts.keys()): value_counts orders by descending count, values of
\* equal count in an order the sort does not fix.
keys_of(counts) ==
  { ks \in [1..Cardinality(DOMAIN counts) -> DOMAIN counts] :
      \A i, j \in 1..Cardinality(DOMAIN counts) :
        i < j => ks[i] # ks[j] /\ counts[ks[i]] >= counts[ks[j]] }

\* total_feeds taken from the dictionary of counts instead of the frame.
analyze_theater_distribution_total_of_keys(feeds) ==
  LET theater_counts == value_counts([n \in 1..Len(feeds) |-> feeds[n].THEATER])
  IN  { [theater_distribution |-> theater_counts,
         total_feeds |-> Cardinality(DOMAIN theater_counts),
         theaters |-> ks] : ks \in keys_of(theater_counts) }

\* The dictionaries analyze_theater_distribution can return.
analyze_theater_distribution(feeds) ==
  LET theater_counts == value_counts([n \in 1..Len(feeds) |-> feeds[n].THEATER])
  IN  { [theater_distribution |-> theater_counts,
         total_feeds |-> Len(feeds),
         theaters |-> ks] : ks \in keys_of(theater_counts) }

\* The dictionaries analyze_codec_distribution can return.
analyze_codec_distribution(feeds) ==
  LET codec_counts == value_counts([n \in 1..Len(feeds) |-> feeds[n].CODEC])
  IN  { [codec_distribution |-> codec_counts,
         total_feeds |-> Len(feeds),
         codecs |-> ks] : ks \in keys_of(codec_counts) }

\* Number of feed ids get_feed_by_id lists when the id is not found.
HintLimit == 10

\* list[:n]
head_of(list, n) == SubSeq(list, 1, IF Len(list) < n THEN Len(list) ELSE n)

get_feed_by_id(feeds, feed_id) ==
  LET feed == SelectSeq(feeds, LAMBDA r : r.FEED_ID = feed_id)
  IN  IF Len(feed) = 0
        THEN [error |-> <<"Feed ID '", feed_id, "' not found">>,
              available_feeds |->
                head_of([n \in 1..Len(feeds) |-> feeds[n].FEED_ID], HintLimit)]
        ELSE [feed |-> feed[1], found |-> TRUE]

\* d[key] = value
dict_set(d, key, value) ==
  [k \in DOMAIN d \cup {key} |-> IF k = key THEN value ELSE d[k]]

\* The filter steps of search_feeds(**filters); filters maps the supplied
\* names to their values.
where_theater(feeds, filters) ==
  IF "theater" \in DOMAIN filters
    THEN SelectSeq(feeds, LAMBDA r : r.THEATER = upper(filters["theater"].v))
    ELSE feeds

where_codec(feeds, filters) ==
  IF "codec" \in DOMAIN filters
    THEN SelectSeq(feeds, LAMBDA r : r.CODEC = upper(filters["codec"].v))
    ELSE feeds

where_min_width(feeds, filters) ==
  IF "min_width" \in DOMAIN filters
    THEN SelectSeq(feeds, LAMBDA r : r.RES_W >= filters["min_width"].v)
    ELSE feeds

where_min_height(feeds, filters) ==
  IF "min_height" \in DOMAIN filters
    THEN SelectSeq(feeds, LAMBDA r : r.RES_H >= filters["min_height"].v)
    ELSE feeds

where_max_latency_strict(feeds, filters) ==
  IF "max_latency" \in DOMAIN filters
    THEN SelectSeq(feeds, LAMBDA r : r.LAT_MS < filters["max_latency"].v)
    ELSE feeds

where_max_latency(feeds, filters) ==
  IF "max_latency" \in DOMAIN filters
    THEN SelectSeq(feeds, LAMBDA r : r.LAT_MS <= filters["max_latency"].v)
    ELSE feeds

where_encrypted(feeds, filters) ==
  IF "encrypted" \in DOMAIN filters
    THEN SelectSeq(feeds, LAMBDA r : r.ENCR = filters["encrypted"].v)
    ELSE feeds

where_civilian_safe(feeds, filters) ==
  IF "civilian_safe" \in DOMAIN filters
    THEN SelectSeq(feeds, LAMBDA r : r.CIV_OK = filters["civilian_safe"].v)
    ELSE feeds

\* applied_filters[key] = filters.get(key), whether or not key was supplied
echo_filter_always(applied, filters, key) ==
  dict_set(applied, key, dict_get(filters, key, None))

\* if key in filters: applied_filters[key] = filters[key]
echo_filter(applied, filters, key) ==
  IF key \in DOMAIN filters THEN dict_set(applied, key, filters[key]) ELSE applied

search_feeds(feeds, filters) ==
  LET f1 == where_theater(feeds, filters)
      a1 == echo_filter(EmptyDict, filters, "theater")
      f2 == where_codec(f1, filters)
      a2 == echo_filter(a1, filters, "codec")
      f3 == where_min_width(f2, filters)
      a3 == echo_filter(a2, filters, "min_width")
      f4 == where_min_height(f3, filters)
      a4 == echo_filter(a3, filters, "min_height")
      f5 == where_max_latency(f4, filters)
      a5 == echo_filter(a4, filters, "max_latency")
      f6 == where_encrypted(f5, filters)
      a6 == echo_filter(a5, filters, "encrypted")
      f7 == where_civilian_safe(f6, filters)
      a7 == echo_filter(a6, filters, "civilian_safe")
  IN  [feeds |-> f7, applied_filters |-> a7, count |-> Len(f7),
       columns |-> CatalogColumns]

\* ------------------------------------------------------------------------
\* Inputs that are explored
\* ------------------------------------------------------------------------
Missing == [tag |-> "missing"]

\* The dictionary of the entries of choice that are not Missing.
Supplied(choice) ==
  [k \in {n \in DOMAIN choice : choice[n] # Missing} |-> choice[k]]

TheaterArgs == {s_pac, s_EUR, s_XX}
CodecArgs == {s_h265, s_H264, s_XX}

LatencyArgs ==
  [max_latency : {None, PyInt(0), PyInt(500)},
   min_latency : {None, PyInt(0), PyInt(500)}]

FeedIdArgs == {"FD-1", "FD-2", "FD-404"}

SearchFilterChoices ==
  [theater : {Missing, PyStr(s_pac), PyStr(s_EUR)},
   codec : {Missing, PyStr(s_h265), PyStr(s_H264)},
   min_width : {Missing, PyInt(0), PyInt(1920)},
   min_height : {Missing, PyInt(0), PyInt(1080)},
   max_latency : {Missing, PyInt(0), PyInt(500)},
   encrypted : {Missing, PyBool(TRUE), PyBool(FALSE)},
   civilian_safe : {Missing, PyBool(TRUE), PyBool(FALSE)}]

ResolutionArgs ==
  [min_width : {None, PyInt(0), PyInt(1920)},
   min_height : {None, PyInt(1080)},
   max_width : {None, PyInt(0), PyInt(1920)},
   max_height : {None, PyInt(1080)}]

\* What the text-understanding service can answer, as the dictionary json.loads
\* makes of it: any of the keys may be missing or null.
IntentChoices ==
  { c \in [intent : {Missing, PyStr(s_filter), PyStr(s_search), PyStr(s_analyze),
                     PyStr(s_get_info), PyStr(s_error)},
           theater : {Missing, None, PyStr(s_Eur), PyStr(s_XX)},
           codec : {Missing, None, PyStr(s_h265), PyStr(s_XX)},
           quality : {Missing, None, PyStr(s_high), PyStr(s_HIGH),
                      PyStr(s_Best_clarity), PyStr(s_low)},
           error : {Missing, PyStr(s_boom)}] :
      c.error # Missing => c.intent = PyStr(s_error) }

\* Answers of the service that json.loads accepts and that are no JSON object:
\* null and a string.
NonObjectAnswers == {None, PyStr(s_low)}

\* The queries: "Best 4K in Pacific", "h265 europe", "list".
Queries ==
  { <<"B","e","s","t"," ","4","K"," ","i","n"," ","P","a","c","i","f","i","c">>,
    <<"h","2","6","5"," ","e","u","r","o","p","e">>,
    <<"l","i","s","t">> }

\* Texts that are only passed on, never looked into, are kept in one piece.
s_AttributeError == <<"'NoneType' object has no attribute 'lower'">>
s_AttributeError_get == <<"object has no attribute 'get'">>
s_Error_executing_tools == <<"Error executing tools: ">>
s_I_encountered_an_error == <<"I encountered an error: ">>
s_error_generating == <<"I encountered an error generating the response: ">>
s_llm_failure == <<"llm failure">>
s_llm_text == <<"llm text">>

\* ------------------------------------------------------------------------
\* QueryAgent (src/query_agent.py)
\* ------------------------------------------------------------------------
\* The except branch of _parse_query: keywords of the lower-cased query.
fallback_intent(q) ==
  LET query_lower == lower(q)
      theater == IF str_in(s_europe, query_lower) \/ str_in(s_eur, query_lower)
                   THEN PyStr(s_EUR)
                   ELSE IF str_in(s_pacific, query_lower) \/ str_in(s_pac, query_lower)
                          THEN PyStr(s_PAC)
                          ELSE None
  IN  [intent |-> PyStr(s_search),
       theater |-> theater,
       codec |-> IF str_in(s_h265, query_lower) THEN PyStr(s_H265) ELSE None,
       resolution |-> IF str_in(s_4k, query_lower) THEN PyStr(<<"4","K">>) ELSE None,
       quality |-> IF str_in(s_best, query_lower) \/ str_in(s_quality, query_lower)
                     THEN PyStr(s_high) ELSE None,
       latency |-> None,
       other_filters |-> [tag |-> "dict", v |-> EmptyDict]]

\* The test made on the "error" key instead of the "intent" key.
upstream_failed_wrong_key(i) == dict_get(i, "error", None) = PyStr(s_error)

\* The object has a get method: it is a dictionary.
has_get(x) == "tag" \notin DOMAIN x

\* intent.get("intent") == "error"
upstream_failed(i) == dict_get(i, "intent", None) = PyStr(s_error)

ToolCall(name, params) == [name |-> name, params |-> params]
ToolNames(calls) == {calls[n].name : n \in 1..Len(calls)}
Raised(msg) == [raised |-> TRUE, msg |-> msg, calls |-> <<>>]
Calls(calls) == [raised |-> FALSE, msg |-> <<>>, calls |-> calls]

\* The tool_calls list _execute_tools builds, or the exception raised while
\* building it.
build_tool_calls(i) ==
  IF dict_get(i, "intent", None) \in {PyStr(s_filter), PyStr(s_search), PyStr(s_analyze)}
    THEN IF Truthy(dict_get(i, "theater", None))
           THEN Calls(<<ToolCall("filter_by_theater", [theater |-> i["theater"]])>>)
           ELSE IF Truthy(dict_get(i, "codec", None))
                  THEN Calls(<<ToolCall("filter_by_codec", [codec |-> i["codec"]])>>)
                  ELSE IF dict_get(i, "quality", None) = PyStr(s_high)
                         THEN Calls(<<ToolCall("get_high_quality_feeds", EmptyDict)>>)
                         ELSE IF dict_get(i, "quality", PyStr(<<>>)).tag # "str"
                                THEN Raised(s_AttributeError)
                                ELSE IF str_in(s_best, lower(dict_get(i, "quality", PyStr(<<>>)).v))
                                       THEN Calls(<<ToolCall("get_high_quality_feeds", EmptyDict)>>)
                                       ELSE Calls(<<ToolCall("get_all_camera_feeds", EmptyDict)>>)
    ELSE Calls(<<>>)

\* tool_func.invoke(params): the dictionaries the tool can return.  json.dumps
\* followed by json.loads gives back the strings, integers, booleans, lists and
\* dictionaries it was given.
invoke(feeds, tc) ==
  CASE tc.name = "filter_by_theater" -> {filter_by_theater(feeds, tc.params.theater.v)}
    [] tc.name = "filter_by_codec" -> {filter_by_codec(feeds, tc.params.codec.v)}
    [] tc.name = "get_high_quality_feeds" ->
         {high_quality_result(frame) : frame \in get_high_quality_feeds(feeds)}
    [] tc.name = "get_all_camera_feeds" -> {get_all_camera_feeds(feeds)}

\* ------------------------------------------------------------------------
\* State
\* ------------------------------------------------------------------------
VARIABLES
  camera_feeds,   \* DataLoader.camera_feeds, the catalog
  load_count,     \* number of times load_all_data has run
  pc,             \* node of the query graph that runs next, "idle" between queries
  query,          \* QueryState["query"]
  intent,         \* QueryState["intent"]
  data_results,   \* QueryState["data_results"]
  response,       \* QueryState["response"]
  error,          \* QueryState["error"]
  tool_calls,     \* the tools _execute_tools invoked, in order
  steps,          \* the graph nodes and service calls of the current query, in order
  call,           \* the last operation called from outside and its arguments
  ret,            \* what that operation returned
  prev            \* the filter_by_resolution call before this one, if both are

vars == <<camera_feeds, load_count, pc, query, intent, data_results, response, error,
          tool_calls, steps, call, ret, prev>>

query_state == <<pc, query, intent, data_results, response, error, tool_calls, steps>>

NoCall == [op |-> "none", args |-> EmptyDict]

Init ==
  /\ camera_feeds \in Catalogs
  /\ load_count = 1
  /\ pc = "idle"
  /\ query = None
  /\ intent = None
  /\ data_results = None
  /\ response = None
  /\ error = None
  /\ tool_calls = <<>>
  /\ steps = <<>>
  /\ call = NoCall
  /\ ret = None
  /\ prev = NoCall

\* ------------------------------------------------------------------------
\* MCPTools operations called directly (agent.mcp_tools, src/app.py)
\* ------------------------------------------------------------------------
GetAllCameraFeeds ==
  /\ pc = "idle"
  /\ call = NoCall
  /\ call' = [op |-> "get_all_camera_feeds", args |-> EmptyDict]
  /\ ret' = get_all_camera_feeds(camera_feeds)
  /\ prev' = NoCall
  /\ load_count' = loads_after_get_camera_feeds(load_count)
  /\ UNCHANGED <<camera_feeds, query_state>>

FilterByTheater ==
  /\ pc = "idle"
  /\ call = NoCall
  /\ \E theater \in TheaterArgs :
       /\ call' = [op |-> "filter_by_theater", args |-> [theater |-> PyStr(theater)]]
       /\ ret' = filter_by_theater(camera_feeds, theater)
  /\ prev' = NoCall
  /\ load_count' = loads_after_get_camera_feeds(load_count)
  /\ UNCHANGED <<camera_feeds, query_state>>

FilterByCodec ==
  /\ pc = "idle"
  /\ call = NoCall
  /\ \E codec \in CodecArgs :
       /\ call' = [op |-> "filter_by_codec", args |-> [codec |-> PyStr(codec)]]
       /\ ret' = filter_by_codec(camera_feeds, codec)
  /\ prev' = NoCall
  /\ load_count' = loads_after_get_camera_feeds(load_count)
  /\ UNCHANGED <<camera_feeds, query_state>>

FilterByResolution ==
  /\ pc = "idle"
  /\ call.op \in {"none", "filter_by_resolution"}
  /\ prev = NoCall
  /\ \E a \in ResolutionArgs :
       /\ call' = [op |-> "filter_by_resolution", args |-> a]
       /\ ret' = filter_by_resolution(camera_feeds, a.min_width, a.min_height,
                                      a.max_width, a.max_height)
  /\ prev' = IF call.op = "filter_by_resolution"
               THEN [op |-> call.op, args |-> call.args, feeds |-> ret.feeds]
               ELSE NoCall
  /\ load_count' = loads_after_get_camera_feeds(load_count)
  /\ UNCHANGED <<camera_feeds, query_state>>

GetHighQualityFeeds ==
  /\ pc = "idle"
  /\ call = NoCall
  /\ \E frame \in get_high_quality_feeds(camera_feeds) :
       /\ call' = [op |-> "get_high_quality_feeds", args |-> EmptyDict]
       /\ ret' = high_quality_result(frame)
  /\ prev' = NoCall
  /\ camera_feeds' = catalog_after_ranking(camera_feeds)
  /\ load_count' = loads_after_get_camera_feeds(load_count)
  /\ UNCHANGED query_state

SearchFeeds ==
  /\ pc = "idle"
  /\ call = NoCall
  /\ \E choice \in SearchFilterChoices :
       /\ call' = [op |-> "search_feeds", args |-> Supplied(choice)]
       /\ ret' = search_feeds(camera_feeds, Supplied(choice))
  /\ prev' = NoCall
  /\ load_count' = loads_after_get_camera_feeds(load_count)
  /\ UNCHANGED <<camera_feeds, query_state>>

GetFeedById ==
  /\ pc = "idle"
  /\ call = NoCall
  /\ \E feed_id \in FeedIdArgs :
       /\ call' = [op |-> "get_feed_by_id", args |-> [feed_id |-> feed_id]]
       /\ ret' = get_feed_by_id(camera_feeds, feed_id)
  /\ prev' = NoCall
  /\ load_count' = loads_after_get_camera_feeds(load_count)
  /\ UNCHANGED <<camera_feeds, query_state>>

FilterByLatency ==
  /\ pc = "idle"
  /\ call = NoCall
  /\ \E a \in LatencyArgs :
       /\ call' = [op |-> "filter_by_latency", args |-> a]
       /\ ret' = filter_by_latency(camera_feeds, a.max_latency, a.min_latency)
  /\ prev' = NoCall
  /\ load_count' = loads_after_get_camera_feeds(load_count)
  /\ UNCHANGED <<camera_feeds, query_state>>

AnalyzeTheaterDistribution ==
  /\ pc = "idle"
  /\ call = NoCall
  /\ call' = [op |-> "analyze_theater_distribution", args |-> EmptyDict]
  /\ ret' \in analyze_theater_distribution(camera_feeds)
  /\ prev' = NoCall
  /\ load_count' = loads_after_get_camera_feeds(load_count)
  /\ UNCHANGED <<camera_feeds, query_state>>

AnalyzeCodecDistribution ==
  /\ pc = "idle"
  /\ call = NoCall
  /\ call' = [op |-> "analyze_codec_distribution", args |-> EmptyDict]
  /\ ret' \in analyze_codec_distribution(camera_feeds)
  /\ prev' = NoCall
  /\ load_count' = loads_after_get_camera_feeds(load_count)
  /\ UNCHANGED <<camera_feeds, query_state>>

\* QueryAgent.query: the initial state, handed to the graph's entry point.
Query ==
  /\ pc = "idle"
  /\ call = NoCall
  /\ \E q \in Queries :
       /\ query' = PyStr(q)
       /\ call' = [op |-> "query", args |-> [query |-> PyStr(q)]]
  /\ pc' = "parse_query"
  /\ intent' = None
  /\ data_results' = None
  /\ response' = None
  /\ error' = None
  /\ tool_calls' = <<>>
  /\ steps' = <<>>
  /\ UNCHANGED <<camera_feeds, load_count, ret, prev>>

\* _parse_query: the service's answer parsed as JSON, or the keyword fallback
\* when the call or the parsing raises.
ParseQuery ==
  /\ pc = "parse_query"
  /\ \/ \E c \in IntentChoices : intent' = Supplied(c)
     \/ intent' \in NonObjectAnswers
     \/ intent' = fallback_intent(query.v)
  /\ steps' = <<"parse_query", "llm.invoke">>
  /\ pc' = "execute_tools"
  /\ UNCHANGED <<camera_feeds, load_count, query, data_results, response, error,
                 tool_calls, call, ret, prev>>

\* _execute_tools
ExecuteTools ==
  /\ pc = "execute_tools"
  /\ steps' = Append(steps, "execute_tools")
  /\ pc' = IF has_get(intent) THEN "generate_response" ELSE "raised"
  /\ IF ~has_get(intent)
       THEN UNCHANGED <<data_results, error, tool_calls, camera_feeds, load_count>>
       ELSE
     IF upstream_failed(intent)
       THEN /\ data_results' = [error |-> dict_get(intent, "error", PyStr(s_Unknown_error))]
            /\ UNCHANGED <<error, tool_calls, camera_feeds, load_count>>
       ELSE LET built == build_tool_calls(intent)
            IN  IF built.raised
                  THEN /\ error' = PyStr(s_Error_executing_tools \o built.msg)
                       /\ data_results' = [error |-> PyStr(built.msg)]
                       /\ UNCHANGED <<tool_calls, camera_feeds, load_count>>
                  ELSE /\ tool_calls' = built.calls
                       /\ \E results \in
                            [{built.calls[n].name : n \in 1..Len(built.calls)} ->
                               UNION {invoke(camera_feeds, built.calls[n]) :
                                        n \in 1..Len(built.calls)}] :
                            /\ \A n \in 1..Len(built.calls) :
                                 results[built.calls[n].name]
                                   \in invoke(camera_feeds, built.calls[n])
                            /\ data_results' = results
                       /\ camera_feeds' =
                            IF "get_high_quality_feeds" \in ToolNames(built.calls)
                              THEN catalog_after_ranking(camera_feeds)
                              ELSE camera_feeds
                       /\ load_count' =
                            IF built.calls = <<>>
                              THEN load_count
                              ELSE loads_after_get_camera_feeds(load_count)
                       /\ UNCHANGED error
  /\ UNCHANGED <<query, intent, response, call, ret, prev>>

\* _generate_response
GenerateResponse ==
  /\ pc = "generate_response"
  /\ IF Truthy(error)
       THEN /\ response' = PyStr(s_I_encountered_an_error \o error.v)
            /\ steps' = Append(steps, "generate_response")
       ELSE /\ \/ response' = PyStr(s_llm_text)
               \/ response' = PyStr(s_error_generating \o s_llm_failure)
            /\ steps' = steps \o <<"generate_response", "llm.invoke">>
  /\ pc' = "END"
  /\ UNCHANGED <<camera_feeds, load_count, query, intent, data_results, error,
                 tool_calls, call, ret, prev>>

\* QueryAgent.query returns the final state's fields.
QueryReturn ==
  /\ pc = "END"
  /\ ret' = [query |-> query, response |-> response, intent |-> intent,
             data_results |-> data_results, error |-> error]
  /\ pc' = "idle"
  /\ query' = None
  /\ intent' = None
  /\ data_results' = None
  /\ response' = None
  /\ error' = None
  /\ tool_calls' = <<>>
  /\ steps' = <<>>
  /\ UNCHANGED <<camera_feeds, load_count, call, prev>>

\* graph.invoke lets the exception of a node through: query returns nothing.
QueryRaise ==
  /\ pc = "raised"
  /\ ret' = [exception |-> s_AttributeError_get]
  /\ pc' = "idle"
  /\ query' = None
  /\ intent' = None
  /\ data_results' = None
  /\ response' = None
  /\ error' = None
  /\ tool_calls' = <<>>
  /\ steps' = <<>>
  /\ UNCHANGED <<camera_feeds, load_count, call, prev>>

\* The caller drops the dictionary it was returned.
Discard ==
  /\ pc = "idle"
  /\ call # NoCall
  /\ call' = NoCall
  /\ ret' = None
  /\ prev' = NoCall
  /\ UNCHANGED <<camera_feeds, load_count, query_state>>

Next ==
  \/ Discard
  \/ GetAllCameraFeeds
  \/ FilterByTheater
  \/ FilterByCodec
  \/ FilterByResolution
  \/ GetHighQualityFeeds
  \/ SearchFeeds
  \/ GetFeedById
  \/ FilterByLatency
  \/ AnalyzeTheaterDistribution
  \/ AnalyzeCodecDistribution
  \/ Query
  \/ ParseQuery
  \/ ExecuteTools
  \/ GenerateResponse
  \/ QueryReturn
  \/ QueryRaise

Spec == Init /\ [][Next]_vars

\* ------------------------------------------------------------------------
\* Properties
\* ------------------------------------------------------------------------
\* _execute_tools has run on the intent of the current query.
Resolved == pc \in {"generate_response", "END"}

\* The intent's operation kind is "error".
ErrorKind(i) == "intent" \in DOMAIN i /\ i["intent"] = PyStr(s_error)

\* A hint the resolver acts on: present, not null, not empty.
HasHint(i, key) == Truthy(dict_get(i, key, None))

\* The key is missing from the intent or null.
NoHint(i, key) == dict_get(i, key, None) = None

TheaterCall(i) == ToolCall("filter_by_theater", [theater |-> i["theater"]])
CodecCall(i) == ToolCall("filter_by_codec", [codec |-> i["codec"]])
QualityCall == ToolCall("get_high_quality_feeds", EmptyDict)
ListingCall == ToolCall("get_all_camera_feeds", EmptyDict)

\* C1: every intent whose kind is not "error" and that has a theater hint and
\* a codec hint resolves to the single call filter_by_theater with that
\* theater; filter_by_codec is not invoked.
C1_TheaterBeatsCodec ==
  (Resolved /\ ~ErrorKind(intent)
     /\ HasHint(intent, "theater") /\ HasHint(intent, "codec"))
    => /\ tool_calls = <<TheaterCall(intent)>>
       /\ "filter_by_codec" \notin ToolNames(tool_calls)

\* C2: every intent whose kind is not "error" (also "get_info", also a missing
\* kind) has exactly one tool call selected and executed.
C2_ExactlyOneCall ==
  (Resolved /\ ~ErrorKind(intent))
    => /\ Len(tool_calls) = 1
       /\ DOMAIN data_results = ToolNames(tool_calls)

\* C3: an intent whose kind is not "error" and whose theater, codec and quality
\* are missing or null resolves to the full catalog listing without an error.
C3_NoHintListsCatalog ==
  (Resolved /\ ~ErrorKind(intent)
     /\ NoHint(intent, "theater") /\ NoHint(intent, "codec")
     /\ NoHint(intent, "quality"))
    => /\ tool_calls = <<ListingCall>>
       /\ error = None
       /\ "error" \notin DOMAIN data_results

\* C4: an intent of kind "error" short-circuits: data_results is the error
\* dictionary and no tool is invoked, whatever hints the intent carries.
C4_ErrorShortCircuits ==
  (Resolved /\ ErrorKind(intent))
    => /\ tool_calls = <<>>
       /\ DOMAIN data_results = {"error"}
       /\ data_results["error"] = dict_get(intent, "error", PyStr(s_Unknown_error))

C4_Witness ==
  /\ Resolved
  /\ ErrorKind(intent)
  /\ HasHint(intent, "theater")
  /\ HasHint(intent, "codec")
  /\ dict_get(intent, "quality", None) = PyStr(s_high)
  /\ tool_calls = <<>>
  /\ data_results = [error |-> PyStr(s_boom)]

\* C5: every intent whose kind is not "error", without a theater hint and with
\* a codec hint, resolves to filter_by_codec; get_high_quality_feeds is not
\* invoked, whatever the quality hint.
C5_CodecBeatsQuality ==
  (Resolved /\ ~ErrorKind(intent)
     /\ ~HasHint(intent, "theater") /\ HasHint(intent, "codec"))
    => /\ tool_calls = <<CodecCall(intent)>>
       /\ "get_high_quality_feeds" \notin ToolNames(tool_calls)

\* C6: for an intent whose kind is not "error", without theater and codec hint
\* and with a quality string, get_high_quality_feeds is selected exactly when
\* the lower-cased quality is "high" or contains "best"; otherwise the full
\* catalog listing is selected.
C6_QualityCaseInsensitive ==
  (Resolved /\ ~ErrorKind(intent)
     /\ ~HasHint(intent, "theater") /\ ~HasHint(intent, "codec")
     /\ dict_get(intent, "quality", None).tag = "str")
    => IF lower(intent["quality"].v) = s_high
            \/ str_in(s_best, lower(intent["quality"].v))
         THEN tool_calls = <<QualityCall>>
         ELSE tool_calls = <<ListingCall>>

\* The record passes every filter of the mapping.
SatisfiesAll(r, filters) ==
  /\ "theater" \in DOMAIN filters => r.THEATER = upper(filters["theater"].v)
  /\ "codec" \in DOMAIN filters => r.CODEC = upper(filters["codec"].v)
  /\ "min_width" \in DOMAIN filters => r.RES_W >= filters["min_width"].v
  /\ "min_height" \in DOMAIN filters => r.RES_H >= filters["min_height"].v
  /\ "max_latency" \in DOMAIN filters => r.LAT_MS <= filters["max_latency"].v
  /\ "encrypted" \in DOMAIN filters => r.ENCR = filters["encrypted"].v
  /\ "civilian_safe" \in DOMAIN filters => r.CIV_OK = filters["civilian_safe"].v

Rows(frame) == {frame[n] : n \in 1..Len(frame)}

\* C7: search_feeds returns exactly the catalog records that pass all supplied
\* filters, in catalog order, and their number as count; for {theater, codec}
\* that is the intersection of the by-theater and the by-codec results, for
\* the empty mapping it is the whole catalog.
C7_SearchIsConjunction ==
  call.op = "search_feeds"
    => /\ ret.feeds = SelectSeq(camera_feeds, LAMBDA r : SatisfiesAll(r, call.args))
       /\ ret.count = Cardinality({n \in 1..Len(camera_feeds) :
                                     SatisfiesAll(camera_feeds[n], call.args)})
       /\ DOMAIN call.args = {"theater", "codec"}
            => Rows(ret.feeds) =
                 Rows(get_feeds_by_theater(camera_feeds, call.args["theater"].v))
                   \cap Rows(get_feeds_by_codec(camera_feeds, call.args["codec"].v))
       /\ call.args = EmptyDict
            => ret.feeds = camera_feeds /\ ret.count = Len(camera_feeds)

C7_Witness ==
  /\ call.op = "search_feeds"
  /\ call.args = [theater |-> PyStr(s_pac), codec |-> PyStr(s_h265)]
  /\ Len(camera_feeds) = 2
  /\ camera_feeds[1].CODEC = s_AV1
  /\ ret.count = 1
  /\ ret.feeds = <<camera_feeds[2]>>

\* C8: the applied_filters of search_feeds has exactly the supplied names as
\* keys, each with the supplied value.
C8_AppliedFiltersEcho ==
  call.op = "search_feeds"
    => /\ DOMAIN ret.applied_filters = DOMAIN call.args
       /\ \A k \in DOMAIN call.args : ret.applied_filters[k] = call.args[k]

C8_Witness ==
  /\ call.op = "search_feeds"
  /\ DOMAIN call.args = {"codec", "max_latency", "encrypted"}
  /\ ret.applied_filters = [codec |-> PyStr(s_H264), max_latency |-> PyInt(0),
                            encrypted |-> PyBool(FALSE)]

\* b is a or wider: a minimum lowered or dropped, a maximum raised or dropped.
MinWidened(a, b) == b = None \/ (a # None /\ b.v <= a.v)
MaxWidened(a, b) == b = None \/ (a # None /\ b.v >= a.v)
Widened(a, b) ==
  /\ MinWidened(a.min_width, b.min_width)
  /\ MinWidened(a.min_height, b.min_height)
  /\ MaxWidened(a.max_width, b.max_width)
  /\ MaxWidened(a.max_height, b.max_height)

\* C9: when a filter_by_resolution call has every bound equal to or wider than
\* the call before it, it returns every record the call before returned.
C9_ResolutionMonotonic ==
  (call.op = "filter_by_resolution" /\ prev.op = "filter_by_resolution"
     /\ Widened(prev.args, call.args))
    => Rows(prev.feeds) \subseteq Rows(ret.feeds)

\* The score as the quality policy states it.
WeightedScore(r) ==
  3 * (IF r.RES_W >= 1920 /\ r.RES_H >= 1080 THEN 1 ELSE 0)
    + 2 * (IF r.CODEC \in {s_H265, s_AV1, s_VP9} THEN 1 ELSE 0)
    + 1 * (IF r.LAT_MS <= 500 THEN 1 ELSE 0)

\* The frame is the catalog with a score on every record: each catalog record
\* once, with the weighted score of its own fields.
ScoresCatalog(frame) ==
  /\ Len(frame) = Len(camera_feeds)
  /\ \A n \in 1..Len(camera_feeds) :
       \E m \in 1..Len(frame) :
         /\ frame[m].FEED_ID = camera_feeds[n].FEED_ID
         /\ frame[m].quality_score = WeightedScore(camera_feeds[n])
         /\ frame[m].quality_score \in 0..6

CatalogIndex(id) == CHOOSE n \in 1..Len(camera_feeds) : camera_feeds[n].FEED_ID = id

\* The frame holds every catalog record once, by descending score, records of
\* equal score in catalog order.
StablyRanked(frame) ==
  /\ Len(frame) = Len(camera_feeds)
  /\ {frame[m].FEED_ID : m \in 1..Len(frame)}
       = {camera_feeds[n].FEED_ID : n \in 1..Len(camera_feeds)}
  /\ \A i, j \in 1..Len(frame) :
       i < j => /\ frame[i].quality_score >= frame[j].quality_score
                /\ frame[i].quality_score = frame[j].quality_score
                     => CatalogIndex(frame[i].FEED_ID) < CatalogIndex(frame[j].FEED_ID)

\* C11: the quality ranking returns the full record set sorted by score
\* descending, and two records of equal score keep their catalog order.
C11_StableRanking ==
  call.op = "get_high_quality_feeds" => StablyRanked(ret.feeds)


\* C12: get_feed_by_id for an id that is not in the catalog returns a result
\* with found = FALSE and a list of at most 10 feed ids of the catalog.
C12_NotFoundFlag ==
  (call.op = "get_feed_by_id"
     /\ \A n \in 1..Len(camera_feeds) : camera_feeds[n].FEED_ID # call.args.feed_id)
    => /\ "found" \in DOMAIN ret
       /\ ret.found = FALSE
       /\ Len(ret.available_feeds) <= 10
       /\ Rows(ret.available_feeds)
            \subseteq {camera_feeds[n].FEED_ID : n \in 1..Len(camera_feeds)}


\* The frame holds exactly the catalog records whose theater is t in upper case.
MatchesTheater(frame, t) ==
  /\ Rows(frame) \subseteq Rows(camera_feeds)
  /\ \A n \in 1..Len(camera_feeds) :
       camera_feeds[n] \in Rows(frame) <=> camera_feeds[n].THEATER = upper(t)

\* C13: for every catalog record r and every theater code t in any letter
\* case, r is in the by-theater result for t exactly when r.THEATER is t in
\* upper case, for the filter called directly and called by the resolver.
C13_TheaterMembership ==
  /\ call.op = "filter_by_theater" => MatchesTheater(ret.feeds, call.args.theater.v)
  /\ (Resolved /\ "filter_by_theater" \in DOMAIN data_results)
       => MatchesTheater(data_results["filter_by_theater"].feeds, intent["theater"].v)

C13_Witness ==
  /\ call.op = "filter_by_theater"
  /\ call.args.theater = PyStr(s_pac)
  /\ Len(camera_feeds) = 2
  /\ camera_feeds[1].THEATER = s_EUR
  /\ camera_feeds[2].THEATER = s_PAC
  /\ ret.feeds = <<camera_feeds[2]>>


\* The result of a filter that matched nothing and reports no error.
EmptyResult(result) ==
  /\ "error" \notin DOMAIN result
  /\ result.feeds = <<>>
  /\ result.count = 0

\* The kinds for which the resolver passes hints on to the filters.
ActedOn(i) ==
  "intent" \in DOMAIN i /\ i["intent"] \in {PyStr(s_filter), PyStr(s_search), PyStr(s_analyze)}

C15_CatalogUnchanged ==
  [][camera_feeds' = camera_feeds /\ load_count' = load_count]_vars

C15_Witness ==
  /\ call.op = "get_high_quality_feeds"
  /\ Len(camera_feeds) = 2
  /\ ret.feeds[1].FEED_ID = "FD-2"
  /\ "quality_score" \in DOMAIN ret.feeds[1]
  /\ "quality_score" \notin DOMAIN camera_feeds[1]
  /\ camera_feeds[1].FEED_ID = "FD-1"
  /\ load_count = 1


RECURSIVE SumOver(_, _)
\* Sum of counts[k] over the keys k of the set keys.
SumOver(counts, keys) ==
  IF keys = {} THEN 0
  ELSE LET k == CHOOSE x \in keys : TRUE
       IN  counts[k] + SumOver(counts, keys \ {k})

\* The counts add up to total, each is at least 1, and categories lists
\* exactly the keys of counts.
ConsistentDistribution(counts, total, categories) ==
  /\ SumOver(counts, DOMAIN counts) = total
  /\ total = Len(camera_feeds)
  /\ \A k \in DOMAIN counts : counts[k] >= 1
  /\ Rows(categories) = DOMAIN counts
  /\ Len(categories) = Cardinality(DOMAIN counts)

\* C16: in both distribution analyses the counts sum to the reported total,
\* every reported category has a count of at least 1, and the category list
\* is the set of keys of the count mapping.
C16_DistributionConsistent ==
  /\ call.op = "analyze_theater_distribution"
       => ConsistentDistribution(ret.theater_distribution, ret.total_feeds, ret.theaters)
  /\ call.op = "analyze_codec_distribution"
       => ConsistentDistribution(ret.codec_distribution, ret.total_feeds, ret.codecs)

C16_Witness ==
  /\ call.op = "analyze_theater_distribution"
  /\ Len(camera_feeds) = 2
  /\ ret.theaters = <<s_PAC>>
  /\ ret.theater_distribution[s_PAC] = 2
  /\ ret.total_feeds = 2


\* C17: the theater or codec value echoed in a result is the upper-case code,
\* also when the caller gave it in lower or mixed case: in filter_by_theater,
\* in filter_by_codec and in the applied_filters of search_feeds.
C17_CanonicalEcho ==
  /\ call.op = "filter_by_theater" => ret.theater = upper(call.args.theater.v)
  /\ call.op = "filter_by_codec" => ret.codec = upper(call.args.codec.v)
  /\ (call.op = "search_feeds" /\ "theater" \in DOMAIN call.args)
       => ret.applied_filters["theater"] = PyStr(upper(call.args["theater"].v))
  /\ (call.op = "search_feeds" /\ "codec" \in DOMAIN call.args)
       => ret.applied_filters["codec"] = PyStr(upper(call.args["codec"].v))


\* The latency lies within the supplied bounds, both inclusive; a bound that
\* is None is omitted.
WithinLatency(r, a) ==
  /\ a.max_latency # None => r.LAT_MS <= a.max_latency.v
  /\ a.min_latency # None => r.LAT_MS >= a.min_latency.v

\* C18: for every supplied bound, 0 included, the by-latency result is exactly
\* the catalog records with latency <= max_latency and >= min_latency; only an
\* omitted bound is unconstrained.
C18_LatencyBounds ==
  call.op = "filter_by_latency"
    => ret.feeds = SelectSeq(camera_feeds, LAMBDA r : WithinLatency(r, call.args))


\* The graph nodes among the steps.
NodesRun(st) == SelectSeq(st, LAMBDA x : x # "llm.invoke")

\* C19: every query runs parse_query, execute_tools and generate_response,
\* each once and in that order, and ends with a response that is not None,
\* whatever fails on the way; when execute_tools recorded an error, the
\* response is the error message and generate_response does not call the
\* text-generation service.
C19_PipelineCompletes ==
  /\ pc # "raised"
  /\ pc = "END"
       => /\ NodesRun(steps) = <<"parse_query", "execute_tools", "generate_response">>
          /\ response # None
  /\ (pc = "END" /\ error # None)
       => /\ response = PyStr(s_I_encountered_an_error \o error.v)
          /\ steps = <<"parse_query", "llm.invoke", "execute_tools", "generate_response">>

====
